---- MODULE Spec2Model ----
(***************************************************************************)
(* Truesign Fastify hook: getTruesignHook and the token extractors.        *)
(*                                                                         *)
(* The model follows the latest revision of the hook (extractToken /       *)
(* injectInto configuration).  JavaScript values are tagged records so     *)
(* that values of different types can be compared:                         *)
(*   undefined  [undef |-> TRUE]      null    [null |-> TRUE]              *)
(*   string     [str |-> "..."]       number  [num |-> n]                  *)
(*   boolean    [bool |-> b]          array   [arr |-> <<...>>]            *)
(*   object     [obj |-> f]  (f: function from property names to values)   *)
(*   function   [fn |-> "...", ...]                                        *)
(* Header names are sequences of one-character strings, so that            *)
(* toLowerCase() is computed character by character.                       *)
(* The response object and the next callback are the host framework's:     *)
(* they record the calls made on them and do not throw.                    *)
(***************************************************************************)
EXTENDS Integers, Sequences, FiniteSets, TLC

VARIABLES
  config,          \* the caller's configuration object
  ctor,            \* "unbuilt" | "built" | "threw": result of getTruesignHook(config)
  hook,            \* what the returned closure captured at construction
  served,          \* number of hook invocations started so far
  pc,              \* position of the current hook invocation
  req,             \* the request object of the current invocation
  res,             \* calls made on the reply object, in order
  nextCalls,       \* argument lists of the calls made on next, in order
  calls,           \* calls made on the configured functions, in order
  tsToken,         \* local `tsToken`
  decryptedToken,  \* local `decryptedToken`
  thrown,          \* the exception in flight or caught, NoError if none
  escaped,         \* TRUE when an exception left the hook
  console,         \* console.error / console.warn entries
  outcome,         \* terminal outcome of the current invocation
  fnCall,          \* pure-function harness: the call under evaluation
  fnRet            \* pure-function harness: its result

vars == <<config, ctor, hook, served, pc, req, res, nextCalls, calls, tsToken,
          decryptedToken, thrown, escaped, console, outcome, fnCall, fnRet>>

hookVars == <<config, ctor, hook, served, pc, req, res, nextCalls, calls, tsToken,
              decryptedToken, thrown, escaped, console, outcome>>

fnVars == <<fnCall, fnRet>>

(***************************************************************************)
(* Bounds                                                                  *)
(***************************************************************************)
\* number of requests handed to one hook
MaxRequests == 2

(***************************************************************************)
(* JavaScript values                                                       *)
(***************************************************************************)
Undef == [undef |-> TRUE]

Null == [null |-> TRUE]

Str(s) == [str |-> s]

Num(n) == [num |-> n]

Bool(b) == [bool |-> b]

Arr(a) == [arr |-> a]

Obj(f) == [obj |-> f]

EmptyMap == [k \in {} |-> Undef]

IsUndef(v) == "undef" \in DOMAIN v

IsNull(v) == "null" \in DOMAIN v

IsString(v) == "str" \in DOMAIN v

IsBool(v) == "bool" \in DOMAIN v

IsNum(v) == "num" \in DOMAIN v

IsArray(v) == "arr" \in DOMAIN v

IsObj(v) == "obj" \in DOMAIN v

IsFn(v) == "fn" \in DOMAIN v

\* ToBoolean(v): undefined, null, "", 0 and false are falsy
Truthy(v) ==
  CASE IsUndef(v) -> FALSE
    [] IsNull(v) -> FALSE
    [] IsString(v) -> v.str # ""
    [] IsNum(v) -> v.num # 0
    [] IsBool(v) -> v.bool
    [] OTHER -> TRUE

\* v ?? d
Coalesce(v, d) == IF IsUndef(v) \/ IsNull(v) THEN d ELSE v

\* o[k] on a property map: undefined when the property is missing
Get(m, k) == IF k \in DOMAIN m THEN m[k] ELSE Undef

\* o[k] = v on a property map
Put(m, k, v) == [x \in (DOMAIN m) \cup {k} |-> IF x = k THEN v ELSE m[x]]

(***************************************************************************)
(* String.prototype.toLowerCase on sequences of characters                 *)
(***************************************************************************)
UpperChars ==
  <<"A","B","C","D","E","F","G","H","I","J","K","L","M",
    "N","O","P","Q","R","S","T","U","V","W","X","Y","Z">>

LowerChars ==
  <<"a","b","c","d","e","f","g","h","i","j","k","l","m",
    "n","o","p","q","r","s","t","u","v","w","x","y","z">>

LowerChar(c) ==
  IF \E i \in DOMAIN UpperChars : UpperChars[i] = c
  THEN LowerChars[CHOOSE i \in DOMAIN UpperChars : UpperChars[i] = c]
  ELSE c

\* mutant: the header name is looked up as written
toLowerCase_asWritten(name) == name

toLowerCase(name) == [i \in DOMAIN name |-> LowerChar(name[i])]

(***************************************************************************)
(* Token extraction                                                        *)
(***************************************************************************)
DEFAULT_EXTRACT_QUERY_PARAM == "ts-token"

DEFAULT_EXTRACT_HEADER_NAME == <<"x","-","t","s","-","t","o","k","e","n">>

\* mutant: typeof value === 'object' alone, which null and arrays pass too
isRecord_typeofObject(value) == IsObj(value) \/ IsNull(value) \/ IsArray(value)

\* typeof value === 'object' && value !== null && !Array.isArray(value)
isRecord(value) == IsObj(value)

\* value[key] for a key that is no array index: a TypeError on null and
\* undefined, the property of an object, undefined on anything else
Member(value, key) ==
  IF IsUndef(value) \/ IsNull(value) THEN [throw |-> "TypeError"]
  ELSE IF IsObj(value) THEN [ret |-> Get(value.obj, key)]
  ELSE [ret |-> Undef]

\* the statements of the closure returned by extractTruesignTokenFromQuery
\* (queryParam), applied to r: the value returned or the exception raised
extractTruesignTokenFromQueryBody(queryParam, r) ==
  IF ~isRecord(r["query"]) THEN [ret |-> Null]
  ELSE LET t == Member(r["query"], queryParam)
       IN IF "throw" \in DOMAIN t THEN t
          ELSE IF ~IsString(t.ret) \/ ~Truthy(t.ret) THEN [ret |-> Null]
          ELSE t

\* the value returned by the closure of extractTruesignTokenFromQuery(queryParam),
\* applied to r
extractTruesignTokenFromQuery(queryParam, r) ==
  extractTruesignTokenFromQueryBody(queryParam, r).ret

\* mutant: a multi-valued header yields its first value
extractTruesignTokenFromHeader_firstOfArray(headerName, r) ==
  LET headerNameLower == toLowerCase(headerName)
      t == Get(r["headers"].obj, headerNameLower)
  IN IF IsArray(t) /\ Len(t.arr) > 0 THEN Str(t.arr[1])
     ELSE IF ~IsString(t) \/ ~Truthy(t) THEN Null ELSE t

\* the closure returned by extractTruesignTokenFromHeader(headerName), applied to r
extractTruesignTokenFromHeader(headerName, r) ==
  LET headerNameLower == toLowerCase(headerName)
      t == Get(r["headers"].obj, headerNameLower)
  IN IF ~IsString(t) \/ ~Truthy(t) THEN Null ELSE t

\* mutant: the header is tried before the query parameter
extractTrueSignToken_headerFirst(options, r) ==
  LET queryParam == IF IsUndef(Get(options, "queryParam"))
                    THEN DEFAULT_EXTRACT_QUERY_PARAM ELSE options["queryParam"]
      headerName == IF IsUndef(Get(options, "headerName"))
                    THEN DEFAULT_EXTRACT_HEADER_NAME ELSE options["headerName"]
  IN Coalesce(extractTruesignTokenFromHeader(headerName, r),
              extractTruesignTokenFromQuery(queryParam, r))

\* mutant: only the query parameter is read
extractTrueSignToken_queryOnly(options, r) ==
  LET queryParam == IF IsUndef(Get(options, "queryParam"))
                    THEN DEFAULT_EXTRACT_QUERY_PARAM ELSE options["queryParam"]
  IN extractTruesignTokenFromQuery(queryParam, r)

\* the closure returned by extractTrueSignToken(options), applied to r
extractTrueSignToken(options, r) ==
  LET queryParam == IF IsUndef(Get(options, "queryParam"))
                    THEN DEFAULT_EXTRACT_QUERY_PARAM ELSE options["queryParam"]
      headerName == IF IsUndef(Get(options, "headerName"))
                    THEN DEFAULT_EXTRACT_HEADER_NAME ELSE options["headerName"]
  IN Coalesce(extractTruesignTokenFromQuery(queryParam, r),
              extractTruesignTokenFromHeader(headerName, r))

(***************************************************************************)
(* decryptTruesignToken: IV || base64(AES-256-CBC(json))                   *)
(***************************************************************************)
IV_LENGTH == 16

AES_256_KEY_BYTES == 32

KEY32 == "0123456789abcdef0123456789abcdef"

IV_A == "aaaaaaaaaaaaaaaa"

IV_B == "bbbbbbbbbbbbbbbb"

JSON_A == "{\"requestId\":1,\"bot\":0,\"ipv4\":\"10.0.0.1\"}"

JSON_B == "{\"requestId\":2,\"bot\":9,\"ipv6\":\"0:0:0:0:0:0:0:1\"}"

RecordA == Obj([requestId |-> Num(1), bot |-> Num(0), ipv4 |-> Str("10.0.0.1")])

RecordB == Obj([requestId |-> Num(2), bot |-> Num(9), ipv6 |-> Str("0:0:0:0:0:0:0:1")])

\* a payload with the email group
JSON_C == "{\"ipv4\":\"10.0.0.1\",\"email\":\"a@b.c\",\"disposable\":false,\"notDeliverable\":false}"

RecordC ==
  Obj([ipv4 |-> Str("10.0.0.1"), email |-> Str("a@b.c"), disposable |-> Bool(FALSE),
       notDeliverable |-> Bool(FALSE)])

\* JSON documents that are not a DecryptedToken: two ip fields, none, half an
\* email group, a number, null
JSON_BOTH_IPS == "{\"ipv4\":\"10.0.0.1\",\"ipv6\":\"0:0:0:0:0:0:0:1\"}"

RecordBothIps == Obj([ipv4 |-> Str("10.0.0.1"), ipv6 |-> Str("0:0:0:0:0:0:0:1")])

JSON_NO_IP == "{\"requestId\":3}"

RecordNoIp == Obj([requestId |-> Num(3)])

JSON_HALF_EMAIL == "{\"ipv4\":\"10.0.0.1\",\"email\":\"a@b.c\"}"

RecordHalfEmail == Obj([ipv4 |-> Str("10.0.0.1"), email |-> Str("a@b.c")])

JSON_NUMBER == "42"

JSON_NULL == "null"

\* a plain text that is no JSON document
TEXT_TRUNCATED == "{\"requestId\":1,"

\* AES-256-CBC under KEY32 at some points: the base64 ciphertext msg decrypts,
\* with the iv, to the text plain; every ciphertext has a plain text under
\* every key and iv, whether the issuer produced it or not
CipherBook ==
  { [key |-> KEY32, iv |-> IV_A, msg |-> "QUJDREVGR0g=", plain |-> JSON_A],
    [key |-> KEY32, iv |-> IV_B, msg |-> "SUpLTE1OT1A=", plain |-> JSON_B],
    [key |-> KEY32, iv |-> IV_A, msg |-> "Q0NDQ0NDQ0M=", plain |-> JSON_C],
    [key |-> KEY32, iv |-> IV_A, msg |-> "Qk9USF9JUFM=", plain |-> JSON_BOTH_IPS],
    [key |-> KEY32, iv |-> IV_A, msg |-> "Tk9fSVBfX18=", plain |-> JSON_NO_IP],
    [key |-> KEY32, iv |-> IV_A, msg |-> "SEFMRl9FTUw=", plain |-> JSON_HALF_EMAIL],
    [key |-> KEY32, iv |-> IV_A, msg |-> "TlVNQkVSX18=", plain |-> JSON_NUMBER],
    [key |-> KEY32, iv |-> IV_A, msg |-> "TlVMTF9fX18=", plain |-> JSON_NULL],
    [key |-> KEY32, iv |-> IV_A, msg |-> "VFJVTkNfX18=", plain |-> TEXT_TRUNCATED] }

TOKEN_A == IV_A \o "QUJDREVGR0g="

TOKEN_B == IV_B \o "SUpLTE1OT1A="

\* the characters of the model that take two bytes in UTF-8
TwoByteChars == {"é"}

\* Buffer.byteLength(s, 'utf8')
byteLength(s) ==
  Len(s) + Cardinality({ i \in 1..Len(s) : SubSeq(s, i, i) \in TwoByteChars })

\* s.substring(start, end) for 0 <= start, with end clamped to the length of s
substring(s, start, end) ==
  LET stop == IF end > Len(s) THEN Len(s) ELSE end
  IN IF start >= stop THEN "" ELSE SubSeq(s, start + 1, stop)

\* crypto.createDecipheriv('aes-256-cbc', key, iv): throws on a key that is not
\* a 32-byte string or an iv that is not 16 bytes
createDecipheriv(key, iv) ==
  IF ~IsString(key) THEN [throw |-> "ERR_INVALID_ARG_TYPE"]
  ELSE IF byteLength(key.str) # AES_256_KEY_BYTES THEN [throw |-> "Invalid key length"]
  ELSE IF byteLength(iv) # IV_LENGTH THEN [throw |-> "Invalid initialization vector"]
  ELSE [ret |-> [key |-> key.str, iv |-> iv]]

\* decipher.update(msg, 'base64', 'utf8') + decipher.final('utf8'): the plain
\* text of a ciphertext of the book, a bad-decrypt error for anything else
decipherFinal(decipher, msg) ==
  IF \E e \in CipherBook : e.key = decipher.key /\ e.iv = decipher.iv /\ e.msg = msg
  THEN [ret |-> (CHOOSE e \in CipherBook :
                   e.key = decipher.key /\ e.iv = decipher.iv /\ e.msg = msg).plain]
  ELSE [throw |-> "bad decrypt"]

\* JSON.parse(text)
JSONparse(text) ==
  CASE text = JSON_A -> [ret |-> RecordA]
    [] text = JSON_B -> [ret |-> RecordB]
    [] text = JSON_C -> [ret |-> RecordC]
    [] text = JSON_BOTH_IPS -> [ret |-> RecordBothIps]
    [] text = JSON_NO_IP -> [ret |-> RecordNoIp]
    [] text = JSON_HALF_EMAIL -> [ret |-> RecordHalfEmail]
    [] text = JSON_NUMBER -> [ret |-> Num(42)]
    [] text = JSON_NULL -> [ret |-> Null]
    [] OTHER -> [throw |-> "SyntaxError"]

\* the statements of the try block of decryptTruesignToken
decryptTry(encryptionKey, token) ==
  LET iv == substring(token, 0, IV_LENGTH)
      encryptedMsg == substring(token, IV_LENGTH, Len(token))
      decipher == createDecipheriv(encryptionKey, iv)
  IN IF "throw" \in DOMAIN decipher THEN decipher
     ELSE LET decryptedTxt == decipherFinal(decipher.ret, encryptedMsg)
          IN IF "throw" \in DOMAIN decryptedTxt THEN decryptedTxt
             ELSE JSONparse(decryptedTxt.ret)

\* mutant: no length check before the cipher
decryptTruesignToken_noLengthCheck(encryptionKey, token) ==
  LET r == decryptTry(encryptionKey, token)
  IN IF "throw" \in DOMAIN r
     THEN [ret |-> Null, cipher |-> TRUE,
           warn |-> <<[level |-> "warn", msg |-> r.throw]>>]
     ELSE [ret |-> r.ret, cipher |-> TRUE, warn |-> <<>>]

\* mutant: no try/catch around the cipher and the parser
decryptTruesignToken_noTry(encryptionKey, token) ==
  IF Len(token) < IV_LENGTH
  THEN [ret |-> Null, cipher |-> FALSE, warn |-> <<>>]
  ELSE LET r == decryptTry(encryptionKey, token)
       IN IF "throw" \in DOMAIN r
          THEN [throw |-> r.throw, cipher |-> TRUE, warn |-> <<>>]
          ELSE [ret |-> r.ret, cipher |-> TRUE, warn |-> <<>>]

\* mutant: the catch clause returns an empty record
decryptTruesignToken_emptyRecordOnFailure(encryptionKey, token) ==
  IF Len(token) < IV_LENGTH
  THEN [ret |-> Null, cipher |-> FALSE, warn |-> <<>>]
  ELSE LET r == decryptTry(encryptionKey, token)
       IN IF "throw" \in DOMAIN r
          THEN [ret |-> Obj(EmptyMap), cipher |-> TRUE,
                warn |-> <<[level |-> "warn", msg |-> r.throw]>>]
          ELSE [ret |-> r.ret, cipher |-> TRUE, warn |-> <<>>]

\* decryptTruesignToken(encryptionKey, token): ret is the value returned (throw
\* the exception raised), cipher tells whether createDecipheriv was called, warn
\* is the console.warn entry
decryptTruesignToken(encryptionKey, token) ==
  IF Len(token) < IV_LENGTH
  THEN [ret |-> Null, cipher |-> FALSE, warn |-> <<>>]
  ELSE LET r == decryptTry(encryptionKey, token)
       IN IF "throw" \in DOMAIN r
          THEN [ret |-> Null, cipher |-> TRUE,
                warn |-> <<[level |-> "warn", msg |-> r.throw]>>]
          ELSE [ret |-> r.ret, cipher |-> TRUE, warn |-> <<>>]

(***************************************************************************)
(* The functions a caller can configure                                    *)
(***************************************************************************)
TEST_QUERY_PARAM == "ts-token-test-param"

\* 'X-TS-Test' as passed by the caller
TEST_HEADER_NAME == <<"X","-","T","S","-","T","e","s","t">>

\* the same header as the server delivers it
TEST_HEADER_KEY == <<"x","-","t","s","-","t","e","s","t">>

DefaultExtract == [fn |-> "extractTrueSignToken", options |-> EmptyMap]

\* mutant: the default policy is () => false
DefaultPolicy_rejectAll == [fn |-> "rejectAll"]

\* () => true
DefaultPolicy == [fn |-> "acceptAll"]

DefaultDecrypt == [fn |-> "decryptTruesignToken"]

Extractors ==
  { Undef,
    [fn |-> "extractTruesignTokenFromQuery", queryParam |-> TEST_QUERY_PARAM],
    [fn |-> "extractTruesignTokenFromHeader", headerName |-> TEST_HEADER_NAME],
    [fn |-> "returns", value |-> Num(7)],
    [fn |-> "throws"] }

Decryptors ==
  { Undef, [fn |-> "returns", value |-> RecordA], [fn |-> "returns", value |-> Null],
    [fn |-> "throws"] }

Policies == { Undef, [fn |-> "acceptAll"], [fn |-> "rejectAll"], [fn |-> "throws"] }

\* extractToken(req)
CallExtract(f, r) ==
  CASE f.fn = "extractTrueSignToken" -> [ret |-> extractTrueSignToken(f.options, r)]
    [] f.fn = "extractTruesignTokenFromQuery" ->
         extractTruesignTokenFromQueryBody(f.queryParam, r)
    [] f.fn = "extractTruesignTokenFromHeader" ->
         [ret |-> extractTruesignTokenFromHeader(f.headerName, r)]
    [] f.fn = "returns" -> [ret |-> f.value]
    [] OTHER -> [throw |-> "extractToken failed"]

\* decryptFunction(encryptionKey, token)
CallDecrypt(f, encryptionKey, token) ==
  CASE f.fn = "decryptTruesignToken" ->
         IF IsString(token)
         THEN LET d == decryptTruesignToken(encryptionKey, token.str)
              IN [ret |-> d.ret, warn |-> d.warn]
         ELSE IF IsUndef(token) \/ IsNull(token)
         THEN [throw |-> "TypeError"]      \* token.length of null or undefined
         ELSE [ret |-> Null,               \* token.substring is not a function
               warn |-> <<[level |-> "warn", msg |-> "TypeError"]>>]
    [] f.fn = "returns" -> [ret |-> f.value, warn |-> <<>>]
    [] OTHER -> [throw |-> "decryptFunction failed"]

\* shouldAcceptToken(decryptedToken, config)
CallPolicy(f, token, cfg) ==
  CASE f.fn = "acceptAll" -> [ret |-> Bool(TRUE)]
    [] f.fn = "rejectAll" -> [ret |-> Bool(FALSE)]
    [] OTHER -> [throw |-> "shouldAcceptToken failed"]

(***************************************************************************)
(* Configurations and requests                                             *)
(***************************************************************************)
\* the properties getTruesignHook knows of
KnownOptions ==
  {"encryptionKey", "allowUnauthenticated", "shouldAcceptToken", "extractToken",
   "injectInto", "decryptFunction"}

\* TruesignHookConfig<Additional>: the known properties and one of the caller's
\* own, maxScore
Configs ==
  [ encryptionKey : {Undef, Str(""), Str(KEY32)},
    allowUnauthenticated : {Undef, Bool(TRUE)},
    shouldAcceptToken : Policies,
    extractToken : Extractors,
    injectInto : {Undef, Str(""), Str("tsRecord")},
    decryptFunction : Decryptors,
    maxScore : {Num(5)} ]

QueryValues == {Str(""), Str("jarl"), Str(TOKEN_A), Arr(<<TOKEN_A, TOKEN_B>>)}

HeaderValues == {Str(""), Str(TOKEN_B), Arr(<<TOKEN_B, TOKEN_A>>)}

\* the property maps {} and {k: v}
Maps(k, values) == {EmptyMap} \cup { [x \in {k} |-> v] : v \in values }

\* req.query is typed unknown: null and arrays are possible
Queries ==
  {Null, Arr(<<>>)}
    \cup { Obj(m) : m \in Maps(DEFAULT_EXTRACT_QUERY_PARAM, QueryValues) }
    \cup { Obj(m) : m \in Maps(TEST_QUERY_PARAM, {Str(TOKEN_A)}) }

Headers ==
  { Obj(m) : m \in Maps(DEFAULT_EXTRACT_HEADER_NAME, HeaderValues) }
    \cup { Obj(m) : m \in Maps(TEST_HEADER_KEY, {Str(TOKEN_B)}) }

Requests == { ("query" :> q) @@ ("headers" :> h) : q \in Queries, h \in Headers }

NoConfig == [none |-> TRUE]

NoHook == [kind |-> "none"]

NoRequest == EmptyMap

NoError == ""

KeyRequiredError == "encryptionKey is required when allowUnauthenticated is false"

QueryNotRecordError == "req.query is not a record"

UNAUTHORIZED == 401

DEFAULT_INJECT_INTO == "ts-token"

\* the statements res.code(401).send() executes on the reply
Reply401 == << [method |-> "code", args |-> <<UNAUTHORIZED>>],
               [method |-> "send", args |-> <<>>] >>

(***************************************************************************)
(* Initial state                                                           *)
(***************************************************************************)
HookIdle ==
  /\ config = NoConfig
  /\ ctor = "unbuilt"
  /\ hook = NoHook
  /\ served = 0
  /\ pc = "idle"
  /\ req = NoRequest
  /\ res = <<>>
  /\ nextCalls = <<>>
  /\ calls = <<>>
  /\ tsToken = Undef
  /\ decryptedToken = Undef
  /\ thrown = NoError
  /\ escaped = FALSE
  /\ console = <<>>
  /\ outcome = "NONE"

NoCall == [fn |-> "none"]

Init ==
  /\ HookIdle
  /\ fnCall = NoCall
  /\ fnRet = Undef

(***************************************************************************)
(* getTruesignHook(config)                                                 *)
(***************************************************************************)
\* mutant: the defaults are written back into the configuration
Construct_writesDefaults(c) ==
  /\ ctor = "unbuilt"
  /\ IF Truthy(c.allowUnauthenticated)
     THEN /\ config' = c
          /\ ctor' = "built"
          /\ hook' = [kind |-> "bypass"]
          /\ thrown' = thrown
     ELSE IF ~Truthy(c.encryptionKey)
     THEN /\ config' = c
          /\ ctor' = "threw"
          /\ hook' = NoHook
          /\ thrown' = KeyRequiredError
     ELSE /\ config' = [c EXCEPT
                          !.shouldAcceptToken = Coalesce(c.shouldAcceptToken, DefaultPolicy),
                          !.extractToken = Coalesce(c.extractToken, DefaultExtract),
                          !.decryptFunction = Coalesce(c.decryptFunction, DefaultDecrypt),
                          !.injectInto = IF Truthy(c.injectInto) THEN c.injectInto
                                         ELSE Str(DEFAULT_INJECT_INTO)]
          /\ ctor' = "built"
          /\ hook' = [kind |-> "verify",
                      shouldAcceptToken |-> Coalesce(c.shouldAcceptToken, DefaultPolicy),
                      extractToken |-> Coalesce(c.extractToken, DefaultExtract),
                      decryptFunction |-> Coalesce(c.decryptFunction, DefaultDecrypt),
                      injectInto |-> IF Truthy(c.injectInto) THEN c.injectInto.str
                                     ELSE DEFAULT_INJECT_INTO]
          /\ thrown' = thrown
  /\ UNCHANGED <<served, pc, req, res, nextCalls, calls, tsToken, decryptedToken,
                 escaped, console, outcome, fnCall, fnRet>>

\* mutant: the key is not checked at construction
Construct_noKeyCheck(c) ==
  /\ ctor = "unbuilt"
  /\ config' = c
  /\ ctor' = "built"
  /\ hook' = IF Truthy(c.allowUnauthenticated)
             THEN [kind |-> "bypass"]
             ELSE [kind |-> "verify",
                   shouldAcceptToken |-> Coalesce(c.shouldAcceptToken, DefaultPolicy),
                   extractToken |-> Coalesce(c.extractToken, DefaultExtract),
                   decryptFunction |-> Coalesce(c.decryptFunction, DefaultDecrypt),
                   injectInto |-> IF Truthy(c.injectInto) THEN c.injectInto.str
                                  ELSE DEFAULT_INJECT_INTO]
  /\ UNCHANGED <<served, pc, req, res, nextCalls, calls, tsToken, decryptedToken,
                 thrown, escaped, console, outcome, fnCall, fnRet>>

\* mutant: the key is checked before the allowUnauthenticated flag
Construct_keyCheckFirst(c) ==
  /\ ctor = "unbuilt"
  /\ config' = c
  /\ IF ~Truthy(c.encryptionKey)
     THEN /\ ctor' = "threw"
          /\ hook' = NoHook
          /\ thrown' = KeyRequiredError
     ELSE /\ ctor' = "built"
          /\ hook' = IF Truthy(c.allowUnauthenticated)
                     THEN [kind |-> "bypass"]
                     ELSE [kind |-> "verify",
                           shouldAcceptToken |-> Coalesce(c.shouldAcceptToken, DefaultPolicy),
                           extractToken |-> Coalesce(c.extractToken, DefaultExtract),
                           decryptFunction |-> Coalesce(c.decryptFunction, DefaultDecrypt),
                           injectInto |-> IF Truthy(c.injectInto) THEN c.injectInto.str
                                          ELSE DEFAULT_INJECT_INTO]
          /\ thrown' = thrown
  /\ UNCHANGED <<served, pc, req, res, nextCalls, calls, tsToken, decryptedToken,
                 escaped, console, outcome, fnCall, fnRet>>

Construct(c) ==
  /\ ctor = "unbuilt"
  /\ config' = c
  /\ IF Truthy(c.allowUnauthenticated)
     THEN /\ ctor' = "built"
          /\ hook' = [kind |-> "bypass"]
          /\ thrown' = thrown
     ELSE IF ~Truthy(c.encryptionKey)
     THEN /\ ctor' = "threw"
          /\ hook' = NoHook
          /\ thrown' = KeyRequiredError
     ELSE /\ ctor' = "built"
          /\ hook' = [kind |-> "verify",
                      shouldAcceptToken |-> Coalesce(c.shouldAcceptToken, DefaultPolicy),
                      extractToken |-> Coalesce(c.extractToken, DefaultExtract),
                      decryptFunction |-> Coalesce(c.decryptFunction, DefaultDecrypt),
                      injectInto |-> IF Truthy(c.injectInto) THEN c.injectInto.str
                                     ELSE DEFAULT_INJECT_INTO]
          /\ thrown' = thrown
  /\ UNCHANGED <<served, pc, req, res, nextCalls, calls, tsToken, decryptedToken,
                 escaped, console, outcome, fnCall, fnRet>>

(***************************************************************************)
(* The hook returned by getTruesignHook: (req, res, next) => { ... }        *)
(***************************************************************************)
\* the host framework calls the hook with a request, once the previous call returned
Invoke(r) ==
  /\ ctor = "built"
  /\ pc \in {"idle", "done"}
  /\ served < MaxRequests
  /\ served' = served + 1
  /\ req' = r
  /\ res' = <<>>
  /\ nextCalls' = <<>>
  /\ calls' = <<>>
  /\ tsToken' = Undef
  /\ decryptedToken' = Undef
  /\ thrown' = NoError
  /\ outcome' = "NONE"
  /\ pc' = IF hook.kind = "bypass" THEN "bypass" ELSE "query_check"
  /\ UNCHANGED <<config, ctor, hook, escaped, console, fnCall, fnRet>>

\* mutant: the bypass hook attaches a null record for the handlers downstream
Bypass_attachNull ==
  /\ pc = "bypass"
  /\ req' = Put(req, DEFAULT_INJECT_INTO, Null)
  /\ nextCalls' = Append(nextCalls, <<>>)
  /\ pc' = "done"
  /\ outcome' = "BYPASSED"
  /\ UNCHANGED <<config, ctor, hook, served, res, calls, tsToken, decryptedToken,
                 thrown, escaped, console, fnCall, fnRet>>

\* the hook of allowUnauthenticated: (_req, _res, next) => { next(); }
Bypass ==
  /\ pc = "bypass"
  /\ nextCalls' = Append(nextCalls, <<>>)
  /\ pc' = "done"
  /\ outcome' = "BYPASSED"
  /\ UNCHANGED <<config, ctor, hook, served, req, res, calls, tsToken, decryptedToken,
                 thrown, escaped, console, fnCall, fnRet>>

\* mutant: the hook body is not wrapped in try/catch
TryBlock_none == {}

\* the statements the try block encloses
TryBlock == {"query_check", "extract", "decrypt", "policy", "attach", "next"}

\* an exception raised by the statement at `site`: control goes to the catch
\* clause when the try block encloses the statement, out of the hook otherwise
Raise(site, err) ==
  /\ thrown' = err
  /\ IF site \in TryBlock
     THEN /\ pc' = "catch"
          /\ escaped' = escaped
          /\ outcome' = outcome
     ELSE /\ pc' = "done"
          /\ escaped' = TRUE
          /\ outcome' = "UNCAUGHT"

\* return res.code(401).send()
Deny(why) ==
  /\ res' = res \o Reply401
  /\ pc' = "done"
  /\ outcome' = why

\* mutant: the query container is not checked before the extraction
CheckQuery_none ==
  /\ pc = "query_check"
  /\ pc' = "extract"
  /\ UNCHANGED <<config, ctor, hook, served, req, res, nextCalls, calls, tsToken,
                 decryptedToken, thrown, escaped, outcome, console, fnCall, fnRet>>

\* if (!isRecord(req.query)) throw new Error(...)
CheckQuery ==
  /\ pc = "query_check"
  /\ IF ~isRecord(req["query"])
     THEN Raise("query_check", QueryNotRecordError)
     ELSE /\ pc' = "extract"
          /\ UNCHANGED <<thrown, escaped, outcome>>
  /\ UNCHANGED <<config, ctor, hook, served, req, res, nextCalls, calls, tsToken,
                 decryptedToken, console, fnCall, fnRet>>

\* mutant: typeof tsToken !== 'string' && !tsToken
Extract_andForOr ==
  /\ pc = "extract"
  /\ LET r == CallExtract(hook.extractToken, req)
     IN /\ calls' = Append(calls, [fn |-> "extractToken", result |-> r])
        /\ IF "throw" \in DOMAIN r
           THEN /\ Raise("extract", r.throw)
                /\ UNCHANGED <<tsToken, res>>
           ELSE /\ tsToken' = r.ret
                /\ IF ~IsString(r.ret) /\ ~Truthy(r.ret)
                   THEN Deny("NO_TOKEN")
                   ELSE /\ pc' = "decrypt"
                        /\ UNCHANGED <<res, outcome>>
                /\ UNCHANGED <<thrown, escaped>>
  /\ UNCHANGED <<config, ctor, hook, served, req, nextCalls, decryptedToken, console,
                 fnCall, fnRet>>

\* mutant: the default strategy is tried when the configured one finds nothing
Extract_defaultFallback ==
  /\ pc = "extract"
  /\ LET own == CallExtract(hook.extractToken, req)
         r == IF "ret" \in DOMAIN own /\ IsNull(own.ret)
              THEN CallExtract(DefaultExtract, req) ELSE own
     IN /\ calls' = Append(calls, [fn |-> "extractToken", result |-> r])
        /\ IF "throw" \in DOMAIN r
           THEN /\ Raise("extract", r.throw)
                /\ UNCHANGED <<tsToken, res>>
           ELSE /\ tsToken' = r.ret
                /\ IF ~IsString(r.ret) \/ ~Truthy(r.ret)
                   THEN Deny("NO_TOKEN")
                   ELSE /\ pc' = "decrypt"
                        /\ UNCHANGED <<res, outcome>>
                /\ UNCHANGED <<thrown, escaped>>
  /\ UNCHANGED <<config, ctor, hook, served, req, nextCalls, decryptedToken, console,
                 fnCall, fnRet>>

\* const tsToken = extractToken(req); if (typeof tsToken !== 'string' || !tsToken) ...
Extract ==
  /\ pc = "extract"
  /\ LET r == CallExtract(hook.extractToken, req)
     IN /\ calls' = Append(calls, [fn |-> "extractToken", result |-> r])
        /\ IF "throw" \in DOMAIN r
           THEN /\ Raise("extract", r.throw)
                /\ UNCHANGED <<tsToken, res>>
           ELSE /\ tsToken' = r.ret
                /\ IF ~IsString(r.ret) \/ ~Truthy(r.ret)
                   THEN Deny("NO_TOKEN")
                   ELSE /\ pc' = "decrypt"
                        /\ UNCHANGED <<res, outcome>>
                /\ UNCHANGED <<thrown, escaped>>
  /\ UNCHANGED <<config, ctor, hook, served, req, nextCalls, decryptedToken, console,
                 fnCall, fnRet>>

\* mutant: the result of decryptFunction is not compared with null
Decrypt_noNullCheck ==
  /\ pc = "decrypt"
  /\ LET r == CallDecrypt(hook.decryptFunction, config.encryptionKey, tsToken)
     IN /\ calls' = Append(calls, [fn |-> "decryptFunction",
                                   key |-> config.encryptionKey, token |-> tsToken,
                                   result |-> IF "throw" \in DOMAIN r THEN r
                                              ELSE [ret |-> r.ret]])
        /\ IF "throw" \in DOMAIN r
           THEN /\ Raise("decrypt", r.throw)
                /\ UNCHANGED <<decryptedToken, res, console>>
           ELSE /\ decryptedToken' = r.ret
                /\ console' = console \o r.warn
                /\ pc' = "policy"
                /\ UNCHANGED <<res, outcome, thrown, escaped>>
  /\ UNCHANGED <<config, ctor, hook, served, req, nextCalls, tsToken, fnCall, fnRet>>

\* mutant: the record is attached as soon as it is decrypted, before the policy
Decrypt_attachBeforePolicy ==
  /\ pc = "decrypt"
  /\ LET r == CallDecrypt(hook.decryptFunction, config.encryptionKey, tsToken)
     IN /\ calls' = Append(calls, [fn |-> "decryptFunction",
                                   key |-> config.encryptionKey, token |-> tsToken,
                                   result |-> IF "throw" \in DOMAIN r THEN r
                                              ELSE [ret |-> r.ret]])
        /\ IF "throw" \in DOMAIN r
           THEN /\ Raise("decrypt", r.throw)
                /\ UNCHANGED <<decryptedToken, res, console, req>>
           ELSE /\ decryptedToken' = r.ret
                /\ console' = console \o r.warn
                /\ IF IsNull(r.ret)
                   THEN Deny("DECRYPT_FAILED") /\ UNCHANGED req
                   ELSE /\ pc' = "policy"
                        /\ req' = Put(req, hook.injectInto, r.ret)
                        /\ UNCHANGED <<res, outcome>>
                /\ UNCHANGED <<thrown, escaped>>
  /\ UNCHANGED <<config, ctor, hook, served, nextCalls, tsToken, fnCall, fnRet>>

\* mutant: a token that fails to decrypt is tried a second time
Decrypt_retryOnNull ==
  /\ pc = "decrypt"
  /\ LET r == CallDecrypt(hook.decryptFunction, config.encryptionKey, tsToken)
     IN /\ calls' = Append(calls, [fn |-> "decryptFunction",
                                   key |-> config.encryptionKey, token |-> tsToken,
                                   result |-> IF "throw" \in DOMAIN r THEN r
                                              ELSE [ret |-> r.ret]])
        /\ IF "throw" \in DOMAIN r
           THEN /\ Raise("decrypt", r.throw)
                /\ UNCHANGED <<decryptedToken, res, console>>
           ELSE /\ decryptedToken' = r.ret
                /\ console' = console \o r.warn
                /\ IF IsNull(r.ret) /\ \E i \in DOMAIN calls : calls[i].fn = "decryptFunction"
                   THEN Deny("DECRYPT_FAILED")
                   ELSE /\ pc' = IF IsNull(r.ret) THEN "decrypt" ELSE "policy"
                        /\ UNCHANGED <<res, outcome>>
                /\ UNCHANGED <<thrown, escaped>>
  /\ UNCHANGED <<config, ctor, hook, served, req, nextCalls, tsToken, fnCall, fnRet>>

\* mutant: a counter kept by the hook lets a token through on its first call only
Decrypt_firstCallOnly ==
  /\ pc = "decrypt"
  /\ LET r == CallDecrypt(hook.decryptFunction, config.encryptionKey, tsToken)
     IN /\ calls' = Append(calls, [fn |-> "decryptFunction",
                                   key |-> config.encryptionKey, token |-> tsToken,
                                   result |-> IF "throw" \in DOMAIN r THEN r
                                              ELSE [ret |-> r.ret]])
        /\ IF "throw" \in DOMAIN r
           THEN /\ Raise("decrypt", r.throw)
                /\ UNCHANGED <<decryptedToken, res, console>>
           ELSE /\ decryptedToken' = r.ret
                /\ console' = console \o r.warn
                /\ IF IsNull(r.ret) \/ served > 1
                   THEN Deny("DECRYPT_FAILED")
                   ELSE /\ pc' = "policy"
                        /\ UNCHANGED <<res, outcome>>
                /\ UNCHANGED <<thrown, escaped>>
  /\ UNCHANGED <<config, ctor, hook, served, req, nextCalls, tsToken, fnCall, fnRet>>

\* const decryptedToken = decryptFunction(config.encryptionKey, tsToken);
\* if (decryptedToken === null || ...
Decrypt ==
  /\ pc = "decrypt"
  /\ LET r == CallDecrypt(hook.decryptFunction, config.encryptionKey, tsToken)
     IN /\ calls' = Append(calls, [fn |-> "decryptFunction",
                                   key |-> config.encryptionKey, token |-> tsToken,
                                   result |-> IF "throw" \in DOMAIN r THEN r
                                              ELSE [ret |-> r.ret]])
        /\ IF "throw" \in DOMAIN r
           THEN /\ Raise("decrypt", r.throw)
                /\ UNCHANGED <<decryptedToken, res, console>>
           ELSE /\ decryptedToken' = r.ret
                /\ console' = console \o r.warn
                /\ IF IsNull(r.ret)
                   THEN Deny("DECRYPT_FAILED")
                   ELSE /\ pc' = "policy"
                        /\ UNCHANGED <<res, outcome>>
                /\ UNCHANGED <<thrown, escaped>>
  /\ UNCHANGED <<config, ctor, hook, served, req, nextCalls, tsToken, fnCall, fnRet>>

\* mutant: the verdict of shouldAcceptToken is ignored
Policy_ignoreResult ==
  /\ pc = "policy"
  /\ LET r == CallPolicy(hook.shouldAcceptToken, decryptedToken, config)
     IN /\ calls' = Append(calls, [fn |-> "shouldAcceptToken",
                                   token |-> decryptedToken, options |-> config,
                                   result |-> r])
        /\ IF "throw" \in DOMAIN r
           THEN /\ Raise("policy", r.throw)
                /\ UNCHANGED res
           ELSE /\ pc' = "attach"
                /\ UNCHANGED <<res, outcome, thrown, escaped>>
  /\ UNCHANGED <<config, ctor, hook, served, req, nextCalls, tsToken, decryptedToken,
                 console, fnCall, fnRet>>

\* mutant: the policy is read from the configuration at each request
Policy_liveConfig ==
  /\ pc = "policy"
  /\ LET r == CallPolicy(Coalesce(config.shouldAcceptToken, DefaultPolicy),
                         decryptedToken, config)
     IN /\ calls' = Append(calls, [fn |-> "shouldAcceptToken",
                                   token |-> decryptedToken, options |-> config,
                                   result |-> r])
        /\ IF "throw" \in DOMAIN r
           THEN /\ Raise("policy", r.throw)
                /\ UNCHANGED res
           ELSE /\ IF ~Truthy(r.ret)
                   THEN Deny("REJECTED")
                   ELSE /\ pc' = "attach"
                        /\ UNCHANGED <<res, outcome>>
                /\ UNCHANGED <<thrown, escaped>>
  /\ UNCHANGED <<config, ctor, hook, served, req, nextCalls, tsToken, decryptedToken,
                 console, fnCall, fnRet>>

\* mutant: the policy is handed a copy of the known options, not the configuration
Policy_knownOptionsOnly ==
  /\ pc = "policy"
  /\ LET options == [k \in DOMAIN config \cap KnownOptions |-> config[k]]
         r == CallPolicy(hook.shouldAcceptToken, decryptedToken, options)
     IN /\ calls' = Append(calls, [fn |-> "shouldAcceptToken",
                                   token |-> decryptedToken, options |-> options,
                                   result |-> r])
        /\ IF "throw" \in DOMAIN r
           THEN /\ Raise("policy", r.throw)
                /\ UNCHANGED res
           ELSE /\ IF ~Truthy(r.ret)
                   THEN Deny("REJECTED")
                   ELSE /\ pc' = "attach"
                        /\ UNCHANGED <<res, outcome>>
                /\ UNCHANGED <<thrown, escaped>>
  /\ UNCHANGED <<config, ctor, hook, served, req, nextCalls, tsToken, decryptedToken,
                 console, fnCall, fnRet>>

\* mutant: res.code(401).send() without the return
Policy_noReturn ==
  /\ pc = "policy"
  /\ LET r == CallPolicy(hook.shouldAcceptToken, decryptedToken, config)
     IN /\ calls' = Append(calls, [fn |-> "shouldAcceptToken",
                                   token |-> decryptedToken, options |-> config,
                                   result |-> r])
        /\ IF "throw" \in DOMAIN r
           THEN /\ Raise("policy", r.throw)
                /\ UNCHANGED res
           ELSE /\ res' = IF ~Truthy(r.ret) THEN res \o Reply401 ELSE res
                /\ pc' = "attach"
                /\ UNCHANGED <<outcome, thrown, escaped>>
  /\ UNCHANGED <<config, ctor, hook, served, req, nextCalls, tsToken, decryptedToken,
                 console, fnCall, fnRet>>

\* ... || !shouldAcceptToken(decryptedToken, config)) return res.code(401).send();
Policy ==
  /\ pc = "policy"
  /\ LET r == CallPolicy(hook.shouldAcceptToken, decryptedToken, config)
     IN /\ calls' = Append(calls, [fn |-> "shouldAcceptToken",
                                   token |-> decryptedToken, options |-> config,
                                   result |-> r])
        /\ IF "throw" \in DOMAIN r
           THEN /\ Raise("policy", r.throw)
                /\ UNCHANGED res
           ELSE /\ IF ~Truthy(r.ret)
                   THEN Deny("REJECTED")
                   ELSE /\ pc' = "attach"
                        /\ UNCHANGED <<res, outcome>>
                /\ UNCHANGED <<thrown, escaped>>
  /\ UNCHANGED <<config, ctor, hook, served, req, nextCalls, tsToken, decryptedToken,
                 console, fnCall, fnRet>>

\* mutant: the record is always attached under the default key
Attach_defaultKey ==
  /\ pc = "attach"
  /\ req' = Put(req, DEFAULT_INJECT_INTO, decryptedToken)
  /\ pc' = "next"
  /\ UNCHANGED <<config, ctor, hook, served, res, nextCalls, calls, tsToken,
                 decryptedToken, thrown, escaped, console, outcome, fnCall, fnRet>>

\* mutant: the raw token is attached instead of the decrypted record
Attach_rawToken ==
  /\ pc = "attach"
  /\ req' = Put(req, hook.injectInto, tsToken)
  /\ pc' = "next"
  /\ UNCHANGED <<config, ctor, hook, served, res, nextCalls, calls, tsToken,
                 decryptedToken, thrown, escaped, console, outcome, fnCall, fnRet>>

\* mutant: the record is attached under config.injectInto as configured
Attach_rawConfigKey ==
  /\ pc = "attach"
  /\ req' = Put(req, IF IsString(config.injectInto) THEN config.injectInto.str
                     ELSE "undefined", decryptedToken)
  /\ pc' = "next"
  /\ UNCHANGED <<config, ctor, hook, served, res, nextCalls, calls, tsToken,
                 decryptedToken, thrown, escaped, console, outcome, fnCall, fnRet>>

\* (req as Record<string, unknown>)[injectInto] = decryptedToken;
Attach ==
  /\ pc = "attach"
  /\ req' = Put(req, hook.injectInto, decryptedToken)
  /\ pc' = "next"
  /\ UNCHANGED <<config, ctor, hook, served, res, nextCalls, calls, tsToken,
                 decryptedToken, thrown, escaped, console, outcome, fnCall, fnRet>>

\* next();
CallNext ==
  /\ pc = "next"
  /\ nextCalls' = Append(nextCalls, <<>>)
  /\ pc' = "done"
  /\ outcome' = "ACCEPTED"
  /\ UNCHANGED <<config, ctor, hook, served, req, res, calls, tsToken, decryptedToken,
                 thrown, escaped, console, fnCall, fnRet>>

\* mutant: the catch clause logs the error and sends nothing
Catch_logOnly ==
  /\ pc = "catch"
  /\ console' = Append(console, [level |-> "error", msg |-> thrown])
  /\ pc' = "done"
  /\ outcome' = "INTERNAL_ERROR"
  /\ UNCHANGED <<config, ctor, hook, served, req, res, nextCalls, calls, tsToken,
                 decryptedToken, thrown, escaped, fnCall, fnRet>>

\* mutant: the catch clause answers 500
Catch_status500 ==
  /\ pc = "catch"
  /\ console' = Append(console, [level |-> "error", msg |-> thrown])
  /\ res' = res \o << [method |-> "code", args |-> <<500>>],
                      [method |-> "send", args |-> <<>>] >>
  /\ pc' = "done"
  /\ outcome' = "INTERNAL_ERROR"
  /\ UNCHANGED <<config, ctor, hook, served, req, nextCalls, calls, tsToken,
                 decryptedToken, thrown, escaped, fnCall, fnRet>>

\* catch (error) { console.error(error); return res.code(401).send(); }
Catch ==
  /\ pc = "catch"
  /\ console' = Append(console, [level |-> "error", msg |-> thrown])
  /\ res' = res \o Reply401
  /\ pc' = "done"
  /\ outcome' = "INTERNAL_ERROR"
  /\ UNCHANGED <<config, ctor, hook, served, req, nextCalls, calls, tsToken,
                 decryptedToken, thrown, escaped, fnCall, fnRet>>

Next ==
  \/ \E c \in Configs : Construct(c)
  \/ \E r \in Requests : Invoke(r)
  \/ Bypass
  \/ CheckQuery
  \/ Extract
  \/ Decrypt
  \/ Policy
  \/ Attach
  \/ CallNext
  \/ Catch

Spec == Init /\ [][Next]_vars

\* a statement of the hook body: the body is synchronous code, so once the hook
\* is called each of its statements runs
HookStep ==
  \/ Bypass
  \/ CheckQuery
  \/ Extract
  \/ Decrypt
  \/ Policy
  \/ Attach
  \/ CallNext
  \/ Catch

\* configurations and requests that between them reach every outcome
LiveConfigs ==
  [ encryptionKey : {Undef, Str(KEY32)},
    allowUnauthenticated : {Undef, Bool(TRUE)},
    shouldAcceptToken : Policies,
    extractToken : {Undef, [fn |-> "returns", value |-> Num(7)], [fn |-> "throws"]},
    injectInto : {Undef},
    decryptFunction : {Undef, [fn |-> "returns", value |-> Null], [fn |-> "throws"]},
    maxScore : {Num(5)} ]

LiveRequests ==
  { ("query" :> q) @@ ("headers" :> h) :
      q \in {Null, Obj(EmptyMap), Obj([x \in {DEFAULT_EXTRACT_QUERY_PARAM} |-> Str("jarl")]),
             Obj([x \in {DEFAULT_EXTRACT_QUERY_PARAM} |-> Str(TOKEN_A)])},
      h \in {Obj(EmptyMap), Obj([x \in {DEFAULT_EXTRACT_HEADER_NAME} |-> Str(TOKEN_B)])} }

NextLive ==
  \/ \E c \in LiveConfigs : Construct(c)
  \/ \E r \in LiveRequests : Invoke(r)
  \/ HookStep

\* the hook under a host that lets a called hook run to its end
SpecLive == Init /\ [][NextLive]_vars /\ WF_vars(HookStep)

(***************************************************************************)
(* The caller keeps the configuration object and can assign to its          *)
(* properties after getTruesignHook(config) returned                        *)
(***************************************************************************)
MutConfigs ==
  [ encryptionKey : {Undef, Str(KEY32)},
    allowUnauthenticated : {Undef, Bool(TRUE)},
    shouldAcceptToken : {Undef, [fn |-> "rejectAll"]},
    extractToken : {Undef, [fn |-> "extractTruesignTokenFromHeader",
                            headerName |-> TEST_HEADER_NAME]},
    injectInto : {Undef, Str("tsRecord")},
    decryptFunction : {Undef, [fn |-> "returns", value |-> RecordA]},
    maxScore : {Num(5)} ]

MutRequests ==
  { ("query" :> q) @@ ("headers" :> h) :
      q \in {Null, Obj([x \in {DEFAULT_EXTRACT_QUERY_PARAM} |-> Str(TOKEN_A)])},
      h \in {Obj(EmptyMap), Obj([x \in {TEST_HEADER_KEY} |-> Str(TOKEN_B)])} }

\* the caller's object exists before the hook is built from it
InitMut ==
  /\ config \in MutConfigs
  /\ ctor = "unbuilt"
  /\ hook = NoHook
  /\ served = 0
  /\ pc = "idle"
  /\ req = NoRequest
  /\ res = <<>>
  /\ nextCalls = <<>>
  /\ calls = <<>>
  /\ tsToken = Undef
  /\ decryptedToken = Undef
  /\ thrown = NoError
  /\ escaped = FALSE
  /\ console = <<>>
  /\ outcome = "NONE"
  /\ fnCall = NoCall
  /\ fnRet = Undef

\* config[k] = v: the caller assigns to a property of the object between two
\* calls of the hook (the hook body is synchronous)
MutateConfig(k, v) ==
  /\ ctor = "built"
  /\ pc \in {"idle", "done"}
  /\ v # config[k]
  /\ config' = [config EXCEPT ![k] = v]
  /\ UNCHANGED <<ctor, hook, served, pc, req, res, nextCalls, calls, tsToken,
                 decryptedToken, thrown, escaped, console, outcome, fnCall, fnRet>>

NextMut ==
  \/ Construct(config)
  \/ \E r \in MutRequests : Invoke(r)
  \/ HookStep
  \/ \E k \in KnownOptions : \E v \in {c[k] : c \in MutConfigs} : MutateConfig(k, v)

SpecMut == InitMut /\ [][NextMut]_vars


(***************************************************************************)
(* The extractors and the decryptor as functions of their arguments        *)
(***************************************************************************)
Pending == [pending |-> TRUE]

\* the header names a caller passes to extractTruesignTokenFromHeader
FnHeaderNames ==
  { DEFAULT_EXTRACT_HEADER_NAME, <<"X","-","T","S","-","T","o","k","e","n">>,
    TEST_HEADER_NAME, TEST_HEADER_KEY }

\* header values: string | string[] | undefined
FnHeaderValues ==
  { Undef, Str(""), Str("jarl"), Str(TOKEN_B), Arr(<<>>), Arr(<<TOKEN_B>>),
    Arr(<<TOKEN_B, TOKEN_A>>) }

\* the header maps a server delivers: lower-case keys
FnHeaders ==
  UNION { [K -> FnHeaderValues] :
            K \in SUBSET {DEFAULT_EXTRACT_HEADER_NAME, TEST_HEADER_KEY} }

\* two header names and a request to apply both extractors to
FnHeaderPairCalls ==
  { [fn |-> "extractTruesignTokenFromHeader x2", headerName |-> a, otherName |-> b,
     req |-> ("query" :> Obj(EmptyMap)) @@ ("headers" :> Obj(h))] :
      a \in FnHeaderNames, b \in FnHeaderNames, h \in FnHeaders }

\* req.query is typed unknown: anything a query parser or a caller can put there
FnQueries ==
  { Undef, Null, Str("ts-token"), Num(7), Bool(TRUE), Arr(<<>>), Arr(<<TOKEN_A>>) }
    \cup { Obj(m) : m \in UNION { [K -> {Undef, Null, Num(7), Str(""), Str("jarl"),
                                           Str(TOKEN_A), Arr(<<TOKEN_A, TOKEN_B>>),
                                           Obj(EmptyMap)}] :
                                     K \in SUBSET {DEFAULT_EXTRACT_QUERY_PARAM,
                                                   TEST_QUERY_PARAM} } }

FnQueryCalls ==
  { [fn |-> "extractTruesignTokenFromQuery", queryParam |-> p,
     req |-> ("query" :> q) @@ ("headers" :> Obj(EmptyMap))] :
      p \in {DEFAULT_EXTRACT_QUERY_PARAM, TEST_QUERY_PARAM}, q \in FnQueries }

\* a second 32-byte key, under which the book holds nothing
KEY32_OTHER == "fedcba9876543210fedcba9876543210"

\* encryption keys: empty, too short, 32 bytes, 32 characters of more bytes
FnKeys ==
  { Str(""), Str("foo"), Str(KEY32), Str(KEY32_OTHER),
    Str("é123456789abcdef0123456789abcdef") }

\* sixteen characters that are more than sixteen bytes
IV_WIDE == "éééééééééééééééé"

\* raw tokens: shorter than an iv, an iv alone, the tokens of the book, a
\* ciphertext under the wrong iv, a text that is no base64, an iv of too many bytes
FnTokens ==
  { "", "jarl", "aaaaaaaaaaaaaaa", IV_A, IV_B \o "QUJDREVGR0g=", IV_A \o "%%%%",
    IV_WIDE \o "QUJDREVGR0g=" }
    \cup { e.iv \o e.msg : e \in CipherBook }

FnDecryptCalls ==
  { [fn |-> "decryptTruesignToken", key |-> k, token |-> t] :
      k \in FnKeys, t \in FnTokens }

FnCalls ==
  { [fn |-> "extractTruesignTokenFromHeader", headerName |-> n,
     req |-> ("query" :> Obj(EmptyMap)) @@ ("headers" :> Obj(h))] :
      n \in FnHeaderNames, h \in FnHeaders }
    \cup FnHeaderPairCalls \cup FnQueryCalls \cup FnDecryptCalls

InitFn ==
  /\ HookIdle
  /\ fnCall \in FnCalls
  /\ fnRet = Pending

\* extractTruesignTokenFromHeader(headerName)(req)
ApplyHeaderExtractor ==
  /\ fnCall.fn = "extractTruesignTokenFromHeader"
  /\ fnRet = Pending
  /\ fnRet' = extractTruesignTokenFromHeader(fnCall.headerName, fnCall.req)
  /\ UNCHANGED <<fnCall, config, ctor, hook, served, pc, req, res, nextCalls, calls,
                 tsToken, decryptedToken, thrown, escaped, console, outcome>>

\* extractTruesignTokenFromHeader(headerName)(req) and
\* extractTruesignTokenFromHeader(otherName)(req)
ApplyHeaderExtractorPair ==
  /\ fnCall.fn = "extractTruesignTokenFromHeader x2"
  /\ fnRet = Pending
  /\ fnRet' = [first |-> extractTruesignTokenFromHeader(fnCall.headerName, fnCall.req),
               second |-> extractTruesignTokenFromHeader(fnCall.otherName, fnCall.req)]
  /\ UNCHANGED <<fnCall, config, ctor, hook, served, pc, req, res, nextCalls, calls,
                 tsToken, decryptedToken, thrown, escaped, console, outcome>>

\* extractTruesignTokenFromQuery(queryParam)(req)
ApplyQueryExtractor ==
  /\ fnCall.fn = "extractTruesignTokenFromQuery"
  /\ fnRet = Pending
  /\ fnRet' = extractTruesignTokenFromQueryBody(fnCall.queryParam, fnCall.req)
  /\ UNCHANGED <<fnCall, config, ctor, hook, served, pc, req, res, nextCalls, calls,
                 tsToken, decryptedToken, thrown, escaped, console, outcome>>

\* decryptTruesignToken(key, token)
ApplyDecrypt ==
  /\ fnCall.fn = "decryptTruesignToken"
  /\ fnRet = Pending
  /\ fnRet' = decryptTruesignToken(fnCall.key, fnCall.token)
  /\ UNCHANGED <<fnCall, config, ctor, hook, served, pc, req, res, nextCalls, calls,
                 tsToken, decryptedToken, thrown, escaped, console, outcome>>

NextFn ==
  \/ ApplyHeaderExtractor
  \/ ApplyHeaderExtractorPair
  \/ ApplyQueryExtractor
  \/ ApplyDecrypt

SpecFn == InitFn /\ [][NextFn]_vars

(***************************************************************************)
(* Vocabulary of the properties                                            *)
(***************************************************************************)
NonEmptyString(v) == IsString(v) /\ v.str # ""

\* a hook was built and allowUnauthenticated is off
BypassOff == ctor = "built" /\ config.allowUnauthenticated # Bool(TRUE)

\* a hook was built with allowUnauthenticated on
BypassOn == ctor = "built" /\ config.allowUnauthenticated = Bool(TRUE)

\* the hook has been called with a request
InRequest == ctor = "built" /\ served > 0

\* the key the configuration asks the record to be attached under
InjectionKey ==
  IF NonEmptyString(config.injectInto) THEN config.injectInto.str ELSE "ts-token"

CallsTo(f) == { i \in DOMAIN calls : calls[i].fn = f }

\* the values the configured function f has returned in this request
ReturnsOf(f) ==
  { calls[i].result.ret : i \in { j \in CallsTo(f) : "ret" \in DOMAIN calls[j].result } }

\* the tokens the decrypt function has been called with in this request
DecryptedWith == { calls[i].token : i \in CallsTo("decryptFunction") }

StatusCodesSet == { res[i].args : i \in { j \in DOMAIN res : res[j].method = "code" } }

\* the reply carries status 401 and was sent with no body
Replied401 ==
  /\ Len(res) = 2
  /\ res[1].method = "code" /\ res[1].args = <<401>>
  /\ res[2].method = "send" /\ res[2].args = <<>>

\* next was called exactly once, with no arguments
NextCalledOnce == nextCalls = << <<>> >>

\* nothing was written to the request
RequestUntouched == DOMAIN req = {"query", "headers"}

\* the configured extraction strategy, applied to the request, yields no token
FindsNoToken ==
  LET strategy == IF IsFn(config.extractToken) THEN config.extractToken
                  ELSE DefaultExtract
      r == CallExtract(strategy, req)
  IN "ret" \in DOMAIN r /\ ~NonEmptyString(r.ret)

\* the value of the query parameter `name`, when req.query is a key/value mapping
QueryValueOf(name) == Get(req["query"].obj, name)

\* a and b are the same header name, letter case apart
SameHeaderName(a, b) ==
  /\ Len(a) = Len(b)
  /\ \A i \in 1..Len(a) :
       \/ a[i] = b[i]
       \/ \E j \in 1..26 : {a[i], b[i]} = {UpperChars[j], LowerChars[j]}

\* the value request r carries for the header `name`
HeaderValueOf(r, name) ==
  LET ks == { k \in DOMAIN r["headers"].obj : SameHeaderName(k, name) }
  IN IF ks = {} THEN Undef ELSE r["headers"].obj[CHOOSE k \in ks : TRUE]

(***************************************************************************)
(* Properties of the hook                                                  *)
(***************************************************************************)
C1_Pre ==
  /\ BypassOff
  /\ NonEmptyString(config.encryptionKey)
  /\ \E t \in ReturnsOf("extractToken") : NonEmptyString(t)
  /\ \E d \in ReturnsOf("decryptFunction") : ~IsNull(d)
  /\ Bool(TRUE) \in ReturnsOf("shouldAcceptToken")

\* C1: bypass off and a non-empty key: once the extraction strategy has returned a
\* non-empty token, the decrypt function a non-null record and the policy true, no
\* status code is ever set, next is called at most once, and when the hook is done
\* the record is on the request under the injection key ('ts-token' by default)
\* and next has been called exactly once with no arguments.
C1_AcceptedAttachesAndContinues ==
  C1_Pre =>
    /\ StatusCodesSet = {}
    /\ Len(nextCalls) <= 1
    /\ pc = "done" =>
         /\ NextCalledOnce
         /\ InjectionKey \in DOMAIN req
         /\ req[InjectionKey] \in ReturnsOf("decryptFunction")

C1_Witness ==
  /\ C1_Pre
  /\ pc = "done"
  /\ config.injectInto = Str("tsRecord")
  /\ req["tsRecord"] = RecordA

\* C2: bypass off: on a request for which the extraction strategy finds no token,
\* neither the decrypt function nor the policy is invoked, next is not called, and
\* the hook ends with status 401.
C2_NoTokenDenied ==
  (BypassOff /\ InRequest /\ FindsNoToken) =>
    /\ CallsTo("decryptFunction") = {}
    /\ CallsTo("shouldAcceptToken") = {}
    /\ nextCalls = <<>>
    /\ pc = "done" => Replied401

C2_Witness ==
  /\ BypassOff /\ InRequest /\ FindsNoToken
  /\ pc = "done"
  /\ outcome = "NO_TOKEN"
  /\ req["query"] = Obj([x \in {"ts-token"} |-> Str("")])

\* C3: bypass off: once the decrypt function has returned null, the policy is not
\* invoked, next is not called, nothing is attached to the request, and the hook
\* ends with status 401.
C3_DecryptNullDenied ==
  (BypassOff /\ Null \in ReturnsOf("decryptFunction")) =>
    /\ CallsTo("shouldAcceptToken") = {}
    /\ nextCalls = <<>>
    /\ RequestUntouched
    /\ pc = "done" => Replied401

C3_Witness ==
  /\ BypassOff
  /\ Null \in ReturnsOf("decryptFunction")
  /\ pc = "done"

\* C4: bypass off: once the policy has returned false for a decrypted token, next
\* is not called, the record is not attached, and the hook ends with status 401.
C4_PolicyFalseDenied ==
  (BypassOff /\ Bool(FALSE) \in ReturnsOf("shouldAcceptToken")) =>
    /\ nextCalls = <<>>
    /\ RequestUntouched
    /\ pc = "done" => Replied401

C4_Witness ==
  /\ BypassOff
  /\ Bool(FALSE) \in ReturnsOf("shouldAcceptToken")
  /\ \E d \in ReturnsOf("decryptFunction") : IsObj(d)
  /\ pc = "done"

\* a step of the current request has raised an exception
C5_Raised ==
  /\ InRequest
  /\ \/ thrown # NoError
     \/ \E i \in DOMAIN calls : "throw" \in DOMAIN calls[i].result

\* C5: no exception leaves the hook; once a step of a request has raised one, the
\* hook is in its catch clause or done, next is not called, and the hook ends with
\* status 401 and an empty body.
C5_ExceptionsCaught ==
  /\ ~escaped
  /\ C5_Raised =>
       /\ pc \in {"catch", "done"}
       /\ nextCalls = <<>>
       /\ pc = "done" => Replied401

C5_Witness ==
  /\ C5_Raised
  /\ pc = "done"
  /\ thrown = "shouldAcceptToken failed"

\* the configuration handed to getTruesignHook has bypass off and no usable key
C6_Pre ==
  /\ ctor # "unbuilt"
  /\ config.allowUnauthenticated # Bool(TRUE)
  /\ config.encryptionKey \in {Undef, Str("")}

\* C6: getTruesignHook with bypass off and an empty or missing key throws and
\* returns no hook, so no request is processed; the key error is never raised or
\* logged while a request is processed.
C6_MissingKeyThrowsAtConstruction ==
  /\ C6_Pre =>
       /\ ctor = "threw"
       /\ thrown = KeyRequiredError
       /\ hook = NoHook
       /\ served = 0 /\ pc = "idle" /\ calls = <<>>
  /\ InRequest =>
       /\ thrown # KeyRequiredError
       /\ \A i \in DOMAIN console : console[i].msg # KeyRequiredError

C6_Witness ==
  /\ C6_Pre
  /\ ctor = "threw"
  /\ config.encryptionKey = Undef

\* C7: with the bypass flag set getTruesignHook returns a hook whatever the key;
\* on every request that hook invokes no configured function and sets no status
\* code, and it ends with next called exactly once with no arguments.
C7_BypassSkipsEverything ==
  (ctor # "unbuilt" /\ config.allowUnauthenticated = Bool(TRUE)) =>
    /\ ctor = "built"
    /\ calls = <<>>
    /\ res = <<>>
    /\ Len(nextCalls) <= 1
    /\ pc = "done" => NextCalledOnce

C7_Witness ==
  /\ BypassOn
  /\ config.encryptionKey = Str("")
  /\ config.shouldAcceptToken = [fn |-> "rejectAll"]
  /\ pc = "done"
  /\ req["query"] = Obj([x \in {"ts-token"} |-> Str("jarl")])

\* the default strategy is in use and the request is being processed
DefaultStrategy == BypassOff /\ InRequest /\ ~IsFn(config.extractToken)

C8_Pre ==
  /\ DefaultStrategy
  /\ isRecord(req["query"])
  /\ NonEmptyString(QueryValueOf("ts-token"))
  /\ NonEmptyString(HeaderValueOf(req, DEFAULT_EXTRACT_HEADER_NAME))

\* C8: default strategy, non-empty string tokens both in query parameter
\* 'ts-token' and in header 'x-ts-token': the decrypt function is invoked, with
\* the query value only.
C8_QueryBeforeHeader ==
  C8_Pre =>
    /\ DecryptedWith \subseteq {QueryValueOf("ts-token")}
    /\ pc = "done" => DecryptedWith = {QueryValueOf("ts-token")}

C8_Witness ==
  /\ C8_Pre
  /\ pc = "done"
  /\ QueryValueOf("ts-token") # HeaderValueOf(req, DEFAULT_EXTRACT_HEADER_NAME)
  /\ DecryptedWith # {}

\* the query is a key/value mapping whose 'ts-token' is missing, empty or not a
\* string, and header 'x-ts-token' is a single non-empty string
C9_Pre ==
  /\ DefaultStrategy
  /\ isRecord(req["query"])
  /\ ~NonEmptyString(QueryValueOf("ts-token"))
  /\ NonEmptyString(HeaderValueOf(req, DEFAULT_EXTRACT_HEADER_NAME))

Denied == outcome \in {"NO_TOKEN", "DECRYPT_FAILED", "REJECTED", "INTERNAL_ERROR"}

\* C16: whatever the stage that denied it, a denied request has had the same
\* calls made on its response: code(401) once, then send() once with no body,
\* and nothing else.
C16_DenialsIndistinguishable ==
  (InRequest /\ Denied) =>
    /\ res = << [method |-> "code", args |-> <<401>>],
                [method |-> "send", args |-> <<>>] >>
    /\ nextCalls = <<>>

C16_Witness ==
  /\ InRequest
  /\ outcome = "INTERNAL_ERROR"
  /\ thrown = "decryptFunction failed"
  /\ pc = "done"
  /\ Replied401

\* no policy is configured, a token was extracted and it decrypted to a record
C17_Pre ==
  /\ BypassOff
  /\ IsUndef(config.shouldAcceptToken)
  /\ \E t \in ReturnsOf("extractToken") : NonEmptyString(t)
  /\ \E d \in ReturnsOf("decryptFunction") : ~IsNull(d)

\* C17: with no acceptance policy in the configuration, a request whose token
\* is extracted and decrypts to a non-null record is accepted: no status code is
\* set, and the hook ends with the record attached and next called once.
C17_NoPolicyAcceptsAll ==
  C17_Pre =>
    /\ StatusCodesSet = {}
    /\ pc = "done" =>
         /\ outcome = "ACCEPTED"
         /\ NextCalledOnce
         /\ InjectionKey \in DOMAIN req
         /\ req[InjectionKey] \in ReturnsOf("decryptFunction")

C17_Witness ==
  /\ C17_Pre
  /\ pc = "done"
  /\ IsUndef(config.decryptFunction)
  /\ req[InjectionKey] = RecordB

\* the extraction strategy of the configuration: the caller's, or the default
ConfiguredStrategy ==
  IF IsFn(config.extractToken) THEN config.extractToken ELSE DefaultExtract

\* C18: the decrypt function is invoked with the configured key and with the
\* string the configured extraction strategy returns for the request, and with
\* nothing else: a custom strategy replaces the default one, so a token under
\* the default names only is not decrypted.
C18_DecryptGetsConfiguredKeyAndExtractedToken ==
  BypassOff =>
    \A i \in CallsTo("decryptFunction") :
      /\ calls[i].key = config.encryptionKey
      /\ IsString(calls[i].token)
      /\ CallExtract(ConfiguredStrategy, req) = [ret |-> calls[i].token]

C18_Witness ==
  /\ BypassOff
  /\ pc = "done"
  /\ config.extractToken = [fn |-> "extractTruesignTokenFromHeader",
                            headerName |-> TEST_HEADER_NAME]
  /\ isRecord(req["query"])
  /\ QueryValueOf("ts-token") = Str(TOKEN_A)
  /\ DecryptedWith = {Str(TOKEN_B)}

\* C19: while the hook processes a request it writes no property of the
\* request but the injection key (the configured one, 'ts-token' when it is
\* missing or empty), and a request that ends accepted carries the decrypted
\* record under that key.
C19_AttachedUnderInjectionKeyOnly ==
  [][ /\ pc \notin {"idle", "done"} =>
           \A k \in (DOMAIN req \cup DOMAIN req') \ {InjectionKey} :
             k \in DOMAIN req /\ k \in DOMAIN req' /\ req'[k] = req[k]
      /\ outcome' = "ACCEPTED" =>
           /\ InjectionKey \in DOMAIN req'
           /\ req'[InjectionKey] = decryptedToken'
           /\ \E i \in DOMAIN calls' :
                /\ calls'[i].fn = "decryptFunction"
                /\ calls'[i].result = [ret |-> req'[InjectionKey]] ]_vars

C19_Witness ==
  /\ outcome = "ACCEPTED"
  /\ pc = "done"
  /\ config.injectInto = Str("")
  /\ DOMAIN req = {"query", "headers", "ts-token"}
  /\ req["ts-token"] = RecordA

\* what the framework handed to the hook: the request less what the hook attached
ReceivedRequest == [k \in {"query", "headers"} |-> req[k]]

\* the outcome of configuration cfg on request r, and the record of an accepted
\* one, as a function of the two alone
Verdict(cfg, r) ==
  IF Truthy(cfg.allowUnauthenticated) THEN [outcome |-> "BYPASSED"]
  ELSE IF ~IsObj(r["query"]) THEN [outcome |-> "INTERNAL_ERROR"]
  ELSE
    LET t == CallExtract(Coalesce(cfg.extractToken, DefaultExtract), r)
    IN IF "throw" \in DOMAIN t THEN [outcome |-> "INTERNAL_ERROR"]
       ELSE IF ~NonEmptyString(t.ret) THEN [outcome |-> "NO_TOKEN"]
       ELSE
         LET d == CallDecrypt(Coalesce(cfg.decryptFunction, DefaultDecrypt),
                              cfg.encryptionKey, t.ret)
         IN IF "throw" \in DOMAIN d THEN [outcome |-> "INTERNAL_ERROR"]
            ELSE IF IsNull(d.ret) THEN [outcome |-> "DECRYPT_FAILED"]
            ELSE
              LET a == CallPolicy(Coalesce(cfg.shouldAcceptToken, [fn |-> "acceptAll"]),
                                  d.ret, cfg)
              IN IF "throw" \in DOMAIN a THEN [outcome |-> "INTERNAL_ERROR"]
                 ELSE IF a.ret # Bool(TRUE) THEN [outcome |-> "REJECTED"]
                 ELSE [outcome |-> "ACCEPTED", record |-> d.ret]

C21_NextAndDenialExclusive ==
  InRequest =>
    /\ res # <<>> => (nextCalls = <<>> /\ RequestUntouched)
    /\ nextCalls # <<>> => res = <<>>
    /\ ~RequestUntouched => res = <<>>

C21_Witness ==
  /\ InRequest
  /\ pc = "done"
  /\ outcome = "REJECTED"
  /\ Replied401
  /\ nextCalls = <<>>
  /\ RequestUntouched

Running == pc \notin {"idle", "done"}

\* the invocation has ended in one of the six outcomes, with next called once
\* and nothing sent, or 401 sent and next not called
Terminated ==
  /\ pc = "done"
  /\ \/ outcome \in {"BYPASSED", "ACCEPTED"} /\ NextCalledOnce /\ res = <<>>
     \/ Denied /\ Replied401 /\ nextCalls = <<>>

\* C22: every invocation of the hook eventually ends in one of the six
\* outcomes, with either next called or a 401 sent and never neither; and once
\* it has ended the hook takes no further step for that request: outcome, reply,
\* next calls, request and the calls of the configured functions stay as they
\* are until the host calls the hook with the next request.
C22_EveryInvocationTerminatesOnce ==
  /\ Running ~> Terminated
  /\ [](pc = "done" => Terminated)
  /\ [][pc = "done" =>
          \/ pc' = "done" /\ UNCHANGED <<outcome, res, nextCalls, req, calls>>
          \/ served' = served + 1]_vars

C22_Witness ==
  /\ Terminated
  /\ outcome = "DECRYPT_FAILED"
  /\ Len(calls) = 2

\* the configured function f has been called before position i of the log of
\* this request and has returned a value that satisfies Ok
ReturnedBefore(f, i, Ok(_)) ==
  \E j \in CallsTo(f) :
    j < i /\ "ret" \in DOMAIN calls[j].result /\ Ok(calls[j].result.ret)

NotNull(v) == ~IsNull(v)

\* C23: within a request the extraction strategy, the decrypt function and the
\* policy are each invoked at most once; decrypt only after extraction returned
\* a non-empty string, the policy only after decrypt returned non-null; the
\* record is attached only after the policy returned true, and next is called
\* only after the record has been attached.
C23_StraightLinePipeline ==
  (BypassOff /\ InRequest) =>
    /\ \A f \in {"extractToken", "decryptFunction", "shouldAcceptToken"} :
         Cardinality(CallsTo(f)) <= 1
    /\ \A i \in CallsTo("decryptFunction") :
         ReturnedBefore("extractToken", i, NonEmptyString)
    /\ \A i \in CallsTo("shouldAcceptToken") :
         ReturnedBefore("decryptFunction", i, NotNull)
    /\ ~RequestUntouched => ReturnedBefore("shouldAcceptToken", Len(calls) + 1, Truthy)
    /\ nextCalls # <<>> => (~RequestUntouched /\ Len(nextCalls) = 1)

C23_Witness ==
  /\ BypassOff /\ InRequest
  /\ pc = "done"
  /\ Len(calls) = 3
  /\ calls[1].fn = "extractToken"
  /\ calls[2].fn = "decryptFunction"
  /\ calls[3].fn = "shouldAcceptToken"
  /\ nextCalls # <<>>

\* bypass is off, the hook is done with a request, and the configured
\* extraction strategy returns a non-empty string for that request
C24_Pre ==
  /\ BypassOff /\ InRequest
  /\ pc = "done"
  /\ "ret" \in DOMAIN CallExtract(ConfiguredStrategy, req)
  /\ NonEmptyString(CallExtract(ConfiguredStrategy, req).ret)

\* C24 as stated: on every request for which the extraction strategy returns a
\* non-empty string the decrypt function is invoked with that string, whatever
\* the query container.
C24_TokenFoundIsDecrypted ==
  C24_Pre => DecryptedWith = {CallExtract(ConfiguredStrategy, req).ret}

\* C24, amended: on a request whose query container is a key/value mapping and
\* for which the extraction strategy returns a non-empty string, the decrypt
\* function is invoked with that string; a request whose query container is
\* not a key/value mapping is denied with 401 before the extraction strategy is
\* invoked, even when it carries a token in a single-valued header.
C24_TokenFoundIsDecryptedWhenQueryIsRecord ==
  C24_Pre =>
    IF isRecord(req["query"])
    THEN DecryptedWith = {CallExtract(ConfiguredStrategy, req).ret}
    ELSE /\ calls = <<>>
         /\ outcome = "INTERNAL_ERROR"
         /\ thrown = QueryNotRecordError
         /\ Replied401

C24_Witness ==
  /\ C24_Pre
  /\ req["query"] = Null
  /\ HeaderValueOf(req, DEFAULT_EXTRACT_HEADER_NAME) = Str(TOKEN_B)
  /\ calls = <<>>
  /\ Replied401

\* C25: a denied request is left as it was received: the only write the hook
\* ever makes to a request adds the injection key and leaves every other
\* property, query and headers included, as it was, and a request that ends
\* denied has no property beyond the query and the headers it came with, so it
\* was never written.
C25_DeniedRequestUnchanged ==
  /\ []((InRequest /\ Denied) => (RequestUntouched /\ req \in Requests))
  /\ [][(Running /\ req' # req) =>
          /\ InjectionKey \notin DOMAIN req
          /\ DOMAIN req' = DOMAIN req \cup {InjectionKey}
          /\ \A k \in DOMAIN req : req'[k] = req[k]
          /\ outcome' \notin {"NO_TOKEN", "DECRYPT_FAILED", "REJECTED",
                               "INTERNAL_ERROR"}]_vars

C25_Witness ==
  /\ InRequest /\ Denied
  /\ pc = "done"
  /\ outcome = "REJECTED"
  /\ req["query"] = Obj([x \in {"ts-token"} |-> Str(TOKEN_A)])
  /\ DOMAIN req = {"query", "headers"}

\* C26: a bypass hook touches neither the request nor the response: no
\* extraction is made, nothing is attached to the request, which stays as it was
\* received, and nothing is called on the reply, even when the request carries
\* a token that would decrypt.
C26_BypassLeavesRequestAlone ==
  (BypassOn /\ InRequest) =>
    /\ req \in Requests
    /\ InjectionKey \notin DOMAIN req
    /\ res = <<>>
    /\ CallsTo("extractToken") = {}
    /\ tsToken = Undef /\ decryptedToken = Undef

C26_Witness ==
  /\ BypassOn /\ InRequest
  /\ pc = "done"
  /\ outcome = "BYPASSED"
  /\ config.encryptionKey = Str(KEY32)
  /\ IsUndef(config.decryptFunction)
  /\ req["query"] = Obj([x \in {"ts-token"} |-> Str(TOKEN_A)])
  /\ DOMAIN req = {"query", "headers"}

\* C28: the policy is called with the record the decrypt function returned for
\* this request and with the configuration given at construction, the
\* caller's own properties included; after a decryption that returned a
\* record the policy is called, and the request is accepted when it returns
\* true and rejected when it returns false.
C28_PolicyGetsRecordAndConfig ==
  (BypassOff /\ InRequest) =>
    /\ \A i \in CallsTo("shouldAcceptToken") :
         /\ calls[i].options = config
         /\ DOMAIN calls[i].options = KnownOptions \cup {"maxScore"}
         /\ \E j \in CallsTo("decryptFunction") :
              j < i /\ calls[j].result = [ret |-> calls[i].token]
         /\ (pc = "done" /\ "ret" \in DOMAIN calls[i].result) =>
              outcome = IF calls[i].result.ret = Bool(TRUE) THEN "ACCEPTED"
                        ELSE "REJECTED"
    /\ (pc = "done" /\ \E d \in ReturnsOf("decryptFunction") : ~IsNull(d)) =>
         CallsTo("shouldAcceptToken") # {}

C28_Witness ==
  /\ BypassOff /\ InRequest
  /\ pc = "done"
  /\ outcome = "REJECTED"
  /\ calls[3] = [fn |-> "shouldAcceptToken", token |-> RecordA, options |-> config,
                 result |-> [ret |-> Bool(FALSE)]]
  /\ config.maxScore = Num(5)

\* a value is attached to the request under the injection key
Attached == InRequest /\ InjectionKey \in DOMAIN req

\* C29: a value attached to the request is the value, not null, that the
\* decrypt function returned in this request for the token the extraction
\* strategy returned; an accepted request carries such a value.
C29_AttachedIsDecryptResult ==
  /\ Attached =>
       /\ ~IsNull(req[InjectionKey])
       /\ \E i \in CallsTo("decryptFunction") :
            /\ calls[i].result = [ret |-> req[InjectionKey]]
            /\ calls[i].token \in ReturnsOf("extractToken")
  /\ (InRequest /\ outcome = "ACCEPTED") => (Attached /\ NextCalledOnce)

C29_Witness ==
  /\ Attached
  /\ outcome = "ACCEPTED"
  /\ tsToken = Str(TOKEN_A)
  /\ IsUndef(config.decryptFunction)
  /\ req[InjectionKey] = RecordA

\* a step of the core: getTruesignHook(config) runs, the hook is called, or a
\* statement of the hook body runs
CoreStep == ctor' # ctor \/ pc' # pc

\* C27: neither getTruesignHook(config) nor a call of the hook, whatever its
\* outcome, changes a property of the configuration object.
C27_ConfigReadOnly == [][CoreStep => config' = config]_vars

C27_Witness ==
  /\ served = MaxRequests
  /\ pc = "done"
  /\ outcome = "ACCEPTED"
  /\ hook.kind = "verify"
  /\ hook.injectInto = DEFAULT_INJECT_INTO
  /\ hook.shouldAcceptToken = DefaultPolicy
  /\ IsUndef(config.injectInto)
  /\ IsUndef(config.shouldAcceptToken)
  /\ IsUndef(config.extractToken)
  /\ IsUndef(config.decryptFunction)

\* what getTruesignHook(c) keeps of c in the hook it returns
Captured(c) ==
  IF Truthy(c.allowUnauthenticated) THEN [kind |-> "bypass"]
  ELSE [kind |-> "verify",
        shouldAcceptToken |-> IF IsUndef(c.shouldAcceptToken) THEN DefaultPolicy
                              ELSE c.shouldAcceptToken,
        extractToken |-> IF IsUndef(c.extractToken) THEN DefaultExtract
                         ELSE c.extractToken,
        decryptFunction |-> IF IsUndef(c.decryptFunction) THEN DefaultDecrypt
                            ELSE c.decryptFunction,
        injectInto |-> IF Truthy(c.injectInto) THEN c.injectInto.str
                       ELSE DEFAULT_INJECT_INTO]

\* the call the step has just made
LastCall == calls'[Len(calls')]

\* C30: the hook is what the configuration was when getTruesignHook ran (bypass
\* flag, key check, extraction strategy, decrypt function, policy, injection
\* key) and assignments to those properties afterwards do not change it; the
\* key handed to the decrypt function is config.encryptionKey as it is when
\* the request is handled.
C30_FixedAtConstructionButKey ==
  /\ [][/\ (ctor = "unbuilt" /\ ctor' # ctor) =>
             /\ ctor' = "threw" <=>
                  (~Truthy(config.allowUnauthenticated) /\ ~Truthy(config.encryptionKey))
             /\ ctor' = "built" => hook' = Captured(config)
        /\ ctor = "built" => (ctor' = ctor /\ hook' = hook)
        /\ served' # served => (pc' = "bypass" <=> hook.kind = "bypass")
        /\ (served' = served /\ calls' # calls) =>
             /\ LastCall.fn = "extractToken" =>
                  LastCall.result = CallExtract(hook.extractToken, req)
             /\ LastCall.fn = "decryptFunction" =>
                  /\ LastCall.key = config.encryptionKey
                  /\ LET r == CallDecrypt(hook.decryptFunction, config.encryptionKey,
                                          tsToken)
                     IN IF "throw" \in DOMAIN r THEN LastCall.result = r
                        ELSE LastCall.result = [ret |-> r.ret]
             /\ LastCall.fn = "shouldAcceptToken" =>
                  LastCall.result = CallPolicy(hook.shouldAcceptToken, decryptedToken,
                                               config)
        /\ (served' = served /\ req' # req) =>
             req' = Put(req, hook.injectInto, decryptedToken)
       ]_vars
  /\ [](ctor = "built" => thrown # KeyRequiredError)

\* a hook built to verify, with its own decrypt function and the default policy,
\* still verifies and accepts after the configuration was set to bypass, lost its
\* key and its decrypt function and got a policy that rejects
C30_Witness ==
  /\ pc = "done"
  /\ outcome = "ACCEPTED"
  /\ hook.kind = "verify"
  /\ hook.decryptFunction = [fn |-> "returns", value |-> RecordA]
  /\ config.allowUnauthenticated = Bool(TRUE)
  /\ IsUndef(config.encryptionKey)
  /\ IsUndef(config.decryptFunction)
  /\ config.shouldAcceptToken = [fn |-> "rejectAll"]
  /\ calls[2].fn = "decryptFunction"
  /\ IsUndef(calls[2].key)

(***************************************************************************)
(* Properties of the extractors                                            *)
(***************************************************************************)
C10_Applied == fnCall.fn = "extractTruesignTokenFromHeader" /\ fnRet # Pending

\* C10: the header extractor returns the header's value when it is a single
\* non-empty string, and absent (null) when it is an array of strings, undefined
\* or the empty string.
C10_HeaderExtractorSingleValueOnly ==
  C10_Applied =>
    LET v == HeaderValueOf(fnCall.req, fnCall.headerName)
    IN /\ NonEmptyString(v) => fnRet = v
       /\ (IsArray(v) \/ IsUndef(v) \/ v = Str("")) => fnRet = Null
       /\ fnRet # Null => (NonEmptyString(v) /\ fnRet = v)

C10_Witness ==
  /\ C10_Applied
  /\ HeaderValueOf(fnCall.req, fnCall.headerName) = Arr(<<TOKEN_B, TOKEN_A>>)
  /\ fnRet = Null

C11_Applied == fnCall.fn = "extractTruesignTokenFromHeader x2" /\ fnRet # Pending

\* C11: two header extractors built from names that differ only in letter case
\* return the same result on every request.
C11_HeaderNameCaseInsensitive ==
  (C11_Applied /\ SameHeaderName(fnCall.headerName, fnCall.otherName)) =>
    fnRet.first = fnRet.second

C11_Witness ==
  /\ C11_Applied
  /\ fnCall.headerName = TEST_HEADER_NAME
  /\ fnCall.otherName = TEST_HEADER_KEY
  /\ fnRet.first = Str(TOKEN_B)
  /\ fnRet.second = Str(TOKEN_B)

C12_Applied == fnCall.fn = "extractTruesignTokenFromQuery" /\ fnRet # Pending

\* C12: the query-parameter extractor never throws: it returns the value under
\* its key when the query container is a key/value mapping (not null, not an
\* array, not a primitive) and that value is a non-empty string, and absent
\* (null) in every other case.
C12_QueryExtractorTotal ==
  C12_Applied =>
    LET q == fnCall.req["query"]
        found == IsObj(q) /\ NonEmptyString(Get(q.obj, fnCall.queryParam))
    IN /\ "throw" \notin DOMAIN fnRet
       /\ "ret" \in DOMAIN fnRet
       /\ found => fnRet.ret = q.obj[fnCall.queryParam]
       /\ ~found => fnRet.ret = Null

C12_Witness ==
  /\ C12_Applied
  /\ fnCall.req["query"] = Null
  /\ fnRet = [ret |-> Null]

(***************************************************************************)
(* Properties of decryptTruesignToken                                      *)
(***************************************************************************)
\* decryptTruesignToken has been applied to fnCall.key and fnCall.token
Decrypted == fnCall.fn = "decryptTruesignToken" /\ fnRet # Pending

\* C13: a token shorter than 16 characters, the empty one included, gives null
\* without the cipher being created; the tokens of 16 characters or more are
\* the ones that reach the cipher.
C13_ShortTokenNeverReachesCipher ==
  Decrypted =>
    /\ Len(fnCall.token) < 16 => ("ret" \in DOMAIN fnRet /\ fnRet.ret = Null)
    /\ fnRet.cipher <=> Len(fnCall.token) >= 16

C13_Witness ==
  /\ Decrypted
  /\ fnCall.key = Str(KEY32)
  /\ Len(fnCall.token) = 15
  /\ fnRet.ret = Null
  /\ ~fnRet.cipher

\* a stage of the decryption of fnCall.token under fnCall.key fails: the key or
\* the iv is refused, the ciphertext does not decrypt, or the text is no JSON
StageFails ==
  LET decipher == createDecipheriv(fnCall.key, substring(fnCall.token, 0, 16))
  IN \/ "throw" \in DOMAIN decipher
     \/ LET text == decipherFinal(decipher.ret,
                                  substring(fnCall.token, 16, Len(fnCall.token)))
        IN \/ "throw" \in DOMAIN text
           \/ "throw" \in DOMAIN JSONparse(text.ret)

\* C14: decryptTruesignToken never throws: for every key and token it returns,
\* and it returns null when a stage fails.
C14_DecryptNeverThrows ==
  Decrypted =>
    /\ "throw" \notin DOMAIN fnRet
    /\ "ret" \in DOMAIN fnRet
    /\ StageFails => fnRet.ret = Null

C14_Witness ==
  /\ Decrypted
  /\ fnCall.key = Str(KEY32)
  /\ fnCall.token = IV_A \o "VFJVTkNfX18="
  /\ fnRet.ret = Null
  /\ fnRet.warn = <<[level |-> "warn", msg |-> "SyntaxError"]>>

EmailGroup == {"email", "disposable", "notDeliverable"}

\* v has the DecryptedToken shape: a record with exactly one of ipv4 and ipv6,
\* and the email group whole or missing
MatchesDecryptedToken(v) ==
  /\ IsObj(v)
  /\ Cardinality(DOMAIN v.obj \cap {"ipv4", "ipv6"}) = 1
  /\ DOMAIN v.obj \cap EmailGroup \in {{}, EmailGroup}

\* C15 as stated: a non-null result of decryptTruesignToken has the
\* DecryptedToken shape.
C15_ResultMatchesShape ==
  (Decrypted /\ "ret" \in DOMAIN fnRet /\ fnRet.ret # Null) =>
    MatchesDecryptedToken(fnRet.ret)

\* the payloads that are DecryptedToken documents
TokenDocuments == {JSON_A, JSON_B, JSON_C}

\* C15, amended: a non-null result of decryptTruesignToken is the value the
\* plain text of the token parses to, whatever its shape; it has the
\* DecryptedToken shape when that plain text is a DecryptedToken document.
C15_ResultIsParsedPlainText ==
  (Decrypted /\ "ret" \in DOMAIN fnRet /\ fnRet.ret # Null) =>
    \E e \in CipherBook :
      /\ fnCall.key = Str(e.key)
      /\ fnCall.token = e.iv \o e.msg
      /\ JSONparse(e.plain) = [ret |-> fnRet.ret]
      /\ e.plain \in TokenDocuments => MatchesDecryptedToken(fnRet.ret)

C15_Witness ==
  /\ Decrypted
  /\ fnCall.token = IV_A \o "Qk9USF9JUFM="
  /\ fnRet.ret = RecordBothIps

====
